---- MODULE Spec2Model ----
(***************************************************************************)
(* Face lock controller (src/py.py): the control loop of main(), the mouse *)
(* callback on_mouse, the enrollment thread register_face, the matcher     *)
(* verify_face, the serial device link send_serial_command and the remote  *)
(* frame source ESP32Camera with its reader thread.                        *)
(*                                                                         *)
(* Time is a discrete clock `now` counted in ticks; TicksPerSecond ticks   *)
(* make one second.  Similarity scores are exact numbers in hundredths     *)
(* (0.4 is 40), which is also the unit of the displayed percentage.        *)
(***************************************************************************)
EXTENDS Integers, Sequences, FiniteSets, TLC

\* ---------------------------------------------------------------- bounds
TicksPerSecond == 3     \* resolution of the clock
MaxThreads     == 2     \* register_face threads that can exist at once
MaxHandle      == 2     \* person_counter values / store namespaces modelled
EnrollSlack    == 2     \* ticks the clock runs past the duration cap
VerifyMaxLen   == 3     \* longest stored embedding list in the matcher model
MaxFailures    == 3     \* failed stream reads in a row that are counted

\* ------------------------------------------------------ program constants
UPDATE_INTERVAL         == 1
REGISTRATION_DURATION   == 7
CONFIDENCE_THRESHOLD    == 40    \* 0.4, in hundredths
MAX_REGISTRATION_IMAGES == 10
MIN_REGISTRATION_FACES  == 3
JoinTimeout             == 1     \* self.thread.join(timeout=1), in seconds

\* Python's None for a string or tri-state value, for an embedding, for a
\* confidence and for a folder name; a box is abstract.
None   == "None"
NoEmb  == <<>>
NoConf == <<>>
NoId   == 0
Box    == "Box"

Conf(n) == <<n>>

\* True / False / None as one comparable type
PyBool(b) == IF b THEN "True" ELSE "False"

Threads == 1..MaxThreads
Handles == 1..MaxHandle

\* ------------------------------------------------------------ embeddings
\* Embeddings are integer vectors of norm 1 or 5, so every cosine is an
\* exact number of hundredths: E1.E2 = 0.40, E1.E3 = 0.60, E2.E3 = 0.88,
\* E1.E4 = 0, E2.E4 = 0.20, E5 = -E1.
E1 == <<1, 0, 0, 0>>
E2 == <<2, 4, 2, 1>>
E3 == <<3, 4, 0, 0>>
E4 == <<0, 0, 0, 1>>
E5 == <<-1, 0, 0, 0>>

StoredEmbeddings == {E2, E3}
Embeddings       == {E1, E2, E3, E4, E5}

Dot(a, b) == a[1]*b[1] + a[2]*b[2] + a[3]*b[3] + a[4]*b[4]

Norm(a) == CHOOSE n \in 0..5 : n * n = Dot(a, a)

\* cosine_similarity([test_emb], [emb])[0][0], in hundredths
cosine_similarity(a, b) == (100 * Dot(a, b)) \div (Norm(a) * Norm(b))

\* ---------------------------------------------------------------- frames
\* What the vision provider makes of a frame: faces is the number of boxes
\* detectMultiScale returns (-1: it raises), valid is is_valid_face of the
\* crop, emb is extract_face_embedding of the crop (NoEmb: it returns None).
Frame(n, v, e) == [faces |-> n, valid |-> v, emb |-> e]

FramesOver(embs) ==
    {Frame(-1, FALSE, NoEmb), Frame(0, FALSE, NoEmb), Frame(2, FALSE, NoEmb),
     Frame(1, FALSE, NoEmb), Frame(1, TRUE, NoEmb)}
    \cup {Frame(1, TRUE, e) : e \in embs}

\* ... and frames with two faces whose first crop (valid, emb) is usable
TwoFaceFramesOver(embs) ==
    {Frame(2, TRUE, e) : e \in embs \cup {NoEmb}}

NoFrame == Frame(0, FALSE, NoEmb)

\* ----------------------------------------------------------------- store
\* One namespace per handle under SAVED_NAMES_PATH: dir (person_<h> exists),
\* images (it holds sample .jpg files), pkl (embeddings.pkl is "absent",
\* "partial": opened for writing and not completely dumped, or "written")
\* and embs (the list a written embeddings.pkl holds).
NoDir == [dir |-> FALSE, images |-> FALSE, pkl |-> "absent", embs |-> <<>>]

EmptyStore == [h \in Handles |-> NoDir]

\* SAVED_NAMES_PATH itself is missing: a tree without any namespace, on
\* which os.listdir raises.
NoRoot == <<>>

HasRoot(st) == DOMAIN st # {}

\* shutil.rmtree(user_dir, ignore_errors=True)
rmtree(st, h) == [st EXCEPT ![h] = NoDir]

\* len([d for d in os.listdir(SAVED_NAMES_PATH) if os.path.isdir(...)])
\* ... except: return 0
get_face_count(st) ==
    IF HasRoot(st) THEN Cardinality({h \in Handles : st[h].dir}) ELSE 0

\* --------------------------------------------------------------- matcher
\* for emb in saved_embs: score = cosine_similarity(...);
\*     if score > best_score: best_score = score; best_id = folder
RECURSIVE ScanEmbs(_, _, _, _, _)
ScanEmbs(test_emb, saved_embs, i, folder, best) ==
    IF i > Len(saved_embs) THEN best
    ELSE LET score == cosine_similarity(test_emb, saved_embs[i])
         IN ScanEmbs(test_emb, saved_embs, i + 1, folder,
                     IF score > best.score
                     THEN [score |-> score, id |-> folder]
                     ELSE best)

\* for folder in os.listdir(SAVED_NAMES_PATH): skip what is no directory,
\* has no embeddings.pkl or cannot be unpickled
RECURSIVE ScanStore(_, _, _, _)
ScanStore(test_emb, st, folder, best) ==
    IF folder > MaxHandle THEN best
    ELSE IF ~st[folder].dir \/ st[folder].pkl # "written"
         THEN ScanStore(test_emb, st, folder + 1, best)
         ELSE ScanStore(test_emb, st, folder + 1,
                        ScanEmbs(test_emb, st[folder].embs, 1, folder, best))

\* mutant: the best score starts below every score
InitialBest_Unset == [score |-> -1, id |-> NoId]

\* lines 524-525: best_score = 0, best_id = None
InitialBest == [score |-> 0, id |-> NoId]

\* mutant: the threshold itself accepts
VerifyDecision_AtLeast(best_score) == best_score >= CONFIDENCE_THRESHOLD

\* line 549: if best_score > CONFIDENCE_THRESHOLD
VerifyDecision(best_score) == best_score > CONFIDENCE_THRESHOLD

Result(ok, box, conf, status) ==
    [ok |-> ok, box |-> box, confidence |-> conf, status |-> status]

\* mutant: only an empty scene is turned away, the first of several faces
\* is matched
verify_face_FirstOfMany(frame, st) ==
    IF frame.faces = -1
    THEN Result(FALSE, None, NoConf, "Verification error occurred")
    ELSE IF frame.faces = 0
    THEN Result(FALSE, None, NoConf, "Please show only one face clearly")
    ELSE IF ~frame.valid
    THEN Result(FALSE, None, NoConf, "Face not clear enough")
    ELSE IF frame.emb = NoEmb
    THEN Result(FALSE, Box, Conf(0), "Could not process face")
    ELSE IF ~HasRoot(st)
    THEN Result(FALSE, None, NoConf, "Verification error occurred")
    ELSE LET best == ScanStore(frame.emb, st, 1, InitialBest)
         IN IF VerifyDecision(best.score)
            THEN Result(TRUE, Box, Conf(best.score), "Welcome")
            ELSE Result(FALSE, Box, Conf(best.score), "Access denied")

\* lines 499-559
verify_face(frame, st) ==
    IF frame.faces = -1
    THEN Result(FALSE, None, NoConf, "Verification error occurred")
    ELSE IF frame.faces # 1
    THEN Result(FALSE, None, NoConf, "Please show only one face clearly")
    ELSE IF ~frame.valid
    THEN Result(FALSE, None, NoConf, "Face not clear enough")
    ELSE IF frame.emb = NoEmb
    THEN Result(FALSE, Box, Conf(0), "Could not process face")
    ELSE IF ~HasRoot(st)
    THEN Result(FALSE, None, NoConf, "Verification error occurred")
    ELSE LET best == ScanStore(frame.emb, st, 1, InitialBest)
             confidence_percent == best.score
         IN IF VerifyDecision(best.score)
            THEN Result(TRUE, Box, Conf(confidence_percent), "Welcome")
            ELSE Result(FALSE, Box, Conf(confidence_percent), "Access denied")

\* ----------------------------------------------------------------- state
VARIABLES
    now,                      \* time.time(), in ticks
    arduino,                  \* the serial link: "open", "closed" or None
    status_text,
    is_unlocked,
    person_counter,
    name_map,                 \* set of <<key, user_id handle>>
    last_lock_state,          \* None, "True" or "False"
    registration_in_progress,
    store,                    \* the directory tree under SAVED_NAMES_PATH
    main_pc,                  \* where main() stands
    frame,                    \* main()'s frame
    last_update_time,
    face_box,
    confidence,
    threads,                  \* the register_face threads
    last_cmd,                 \* the last call of send_serial_command
    cycle_cmds,               \* commands main() sent in the latest cycle
    decision,                 \* verify_face's decision in the latest cycle
    prev_decision,            \* ... and in the cycle before it
    camera                    \* the ESP32Camera object and its reader thread

vars == <<now, arduino, status_text, is_unlocked, person_counter, name_map,
          last_lock_state, registration_in_progress, store, main_pc, frame,
          last_update_time, face_box, confidence, threads, last_cmd,
          cycle_cmds, decision, prev_decision, camera>>

globals == <<status_text, is_unlocked, person_counter, name_map,
             last_lock_state, registration_in_progress>>

main_locals == <<main_pc, frame, last_update_time, face_box, confidence>>

cycle_history == <<cycle_cmds, decision, prev_decision>>

\* ESP32Camera: the object after __init__ (lines 150-155).  cap is None, "open" or
\* "released"; frame is the latest-frame slot, None or "frame"; worker is
\* where the _stream_reader thread stands ("none": no thread); fails counts
\* the failed reads in a row; rel is where a call of release() stands and
\* waited the ticks its join has waited; last_read is what the latest
\* read() returned and read_seq flips with every read().  A process that
\* falls back to the local webcam never connects one.
ESP32Camera ==
    [cap |-> None, connected |-> FALSE, frame |-> None, running |-> FALSE,
     worker |-> "none", fails |-> 0, rel |-> "idle", waited |-> 0,
     last_read |-> None, read_seq |-> 0]

\* The clock reading at process start: time.time() is far from 0.
BootTime == 2 * TicksPerSecond

\* The whole-system model runs the clock long enough for three spaced
\* captures and for two verification cycles.
SysHorizon == 2 * (TicksPerSecond \div 2 + 1)

\* time.time() - last_capture > 0.5
SpacingElapsed(t, last_capture) == 2 * (t - last_capture) > TicksPerSecond

\* mutant: the session has no time limit
WithinDuration_Never(t, start_time) == TRUE

\* time.time() - start_time < REGISTRATION_DURATION
WithinDuration(t, start_time) ==
    t - start_time < REGISTRATION_DURATION * TicksPerSecond

\* current_time - last_update_time > UPDATE_INTERVAL
UpdateDue(t, last) == t - last > UPDATE_INTERVAL * TicksPerSecond

\* ----------------------------------------------------------- device link
\* What one call of send_serial_command can meet: no link object, a write
\* or read that raises (a closed port raises on write), no byte within the
\* second, or a response line, which may be empty.
LinkOutcomes(link) ==
    IF link = None THEN {"nolink"}
    ELSE IF link = "closed" THEN {"error"}
    ELSE {"line", "empty_line", "timeout", "error"}

\* the value send_serial_command returns
SendReturns(outcome) == outcome \in {"line", "empty_line"}

\* arduino.write is called once when there is a link object, never without
Writes(outcome) == IF outcome = "nolink" THEN 0 ELSE 1

\* A call of send_serial_command: the command, what the link did, the
\* number of writes and the value returned.
Sent(cmd, outcome) ==
    [cmd |-> cmd, outcome |-> outcome, writes |-> Writes(outcome),
     acked |-> SendReturns(outcome)]

NoCmd == [cmd |-> None, outcome |-> None, writes |-> 0, acked |-> FALSE]

\* -------------------------------------------------------- register_face
\* A thread: where it stands, its locals, the frame it is capturing (cand),
\* what ended its capture loop (cause: "time", "max", "cancel", "error")
\* and what it returns (ret: "user_id" or None).
IdleThread == [pc |-> "idle", handle |-> 0, embeddings |-> <<>>,
               start_time |-> 0, last_capture |-> 0, cand |-> NoFrame,
               cause |-> None, ret |-> None]

InRegisterFace(t) == threads[t].pc \notin {"idle", "spawned"}

\* lines 397-405: the thread's first statements
RegStart(t) ==
    /\ threads[t].pc = "spawned"
    /\ person_counter \in Handles
    /\ registration_in_progress' = TRUE
    /\ threads' = [threads EXCEPT ![t] =
           [IdleThread EXCEPT !.pc = "loop", !.handle = person_counter,
                              !.start_time = now]]
    /\ store' = [store EXCEPT ![person_counter].dir = TRUE]
    /\ UNCHANGED <<camera, now, arduino, status_text, is_unlocked, person_counter,
                   name_map, last_lock_state, main_locals, last_cmd,
                   cycle_history>>

\* lines 410-411: the while condition
RegLoop(t) ==
    /\ threads[t].pc = "loop"
    /\ threads' = [threads EXCEPT ![t] =
           IF ~WithinDuration(now, threads[t].start_time)
           THEN [@ EXCEPT !.pc = "finish", !.cause = "time"]
           ELSE IF ~(Len(threads[t].embeddings) < MAX_REGISTRATION_IMAGES)
           THEN [@ EXCEPT !.pc = "finish", !.cause = "max"]
           ELSE [@ EXCEPT !.pc = "read"]]
    /\ UNCHANGED <<camera, now, arduino, globals, store, main_locals, last_cmd,
                   cycle_history>>

\* mutant: no spacing test
CaptureTest_NoSpacing(f, t, last_capture) == f.faces = 1 /\ f.valid

\* The test that admits a candidate to extraction, line 427 (one face was
\* detected at line 423).
CaptureTest(f, t, last_capture) ==
    f.faces = 1 /\ f.valid /\ SpacingElapsed(t, last_capture)

\* lines 413-427: read a frame, detect, test the candidate.  A failed read
\* goes back to the while condition; a raising detector leaves through the
\* outer except.
RegRead(t, frames) ==
    /\ threads[t].pc = "read"
    /\ \E ret \in BOOLEAN, f \in frames :
         threads' = [threads EXCEPT ![t] =
             IF ~ret THEN [@ EXCEPT !.pc = "loop"]
             ELSE IF f.faces = -1 THEN [@ EXCEPT !.pc = "except"]
             ELSE IF CaptureTest(f, now, threads[t].last_capture)
             THEN [@ EXCEPT !.pc = "extract", !.cand = f]
             ELSE [@ EXCEPT !.pc = "waitkey"]]
    /\ UNCHANGED <<camera, now, arduino, globals, store, main_locals, last_cmd,
                   cycle_history>>

\* mutant: the newest sample goes first
AppendSample_Front(embeddings, emb) == <<emb>> \o embeddings

\* line 434: embeddings.append(emb)
AppendSample(embeddings, emb) == Append(embeddings, emb)

\* lines 428-439: extract the embedding, write the sample image (imwrite
\* writes nothing when the directory is gone), append, stamp the capture
RegCapture(t) ==
    /\ threads[t].pc = "extract"
    /\ LET emb == threads[t].cand.emb
           h   == threads[t].handle
       IN IF emb = NoEmb
          THEN /\ threads' = [threads EXCEPT ![t].pc = "waitkey",
                                             ![t].cand = NoFrame]
               /\ UNCHANGED <<store, status_text>>
          ELSE /\ threads' = [threads EXCEPT
                     ![t].pc = "waitkey",
                     ![t].cand = NoFrame,
                     ![t].embeddings = AppendSample(@, emb),
                     ![t].last_capture = now]
               /\ store' = [store EXCEPT ![h].images = store[h].dir]
               /\ status_text' = "Capturing"
    /\ UNCHANGED <<camera, now, arduino, is_unlocked, person_counter, name_map,
                   last_lock_state, registration_in_progress, main_locals,
                   last_cmd, cycle_history>>

\* lines 455-459: show the progress frame, poll the keyboard; ESC cancels
RegWaitKey(t) ==
    /\ threads[t].pc = "waitkey"
    /\ \E esc \in BOOLEAN :
         threads' = [threads EXCEPT ![t] =
             IF esc THEN [@ EXCEPT !.pc = "finish", !.cause = "cancel"]
             ELSE [@ EXCEPT !.pc = "loop"]]
    /\ UNCHANGED <<camera, now, arduino, globals, store, main_locals, last_cmd,
                   cycle_history>>

\* mutant: any sample is enough
EnoughFaces_Any(n) == n >= 1

\* line 464: if len(faces) >= MIN_REGISTRATION_FACES
EnoughFaces(n) == n >= MIN_REGISTRATION_FACES

\* mutant: the directory is left behind
AbortCleanup_Keep(st, h) == st

\* lines 482, 485, 491: every abort path removes the session's directory
AbortCleanup(st, h) == rmtree(st, h)

\* lines 461-467 and 484-487: decide; with enough faces open
\* embeddings.pkl for writing (which fails when the directory is gone),
\* otherwise abort
RegFinish(t) ==
    /\ threads[t].pc = "finish"
    /\ LET h == threads[t].handle
       IN IF EnoughFaces(Len(threads[t].embeddings))
          THEN IF store[h].dir
               THEN /\ store' = [store EXCEPT ![h].pkl = "partial",
                                              ![h].embs = <<>>]
                    /\ threads' = [threads EXCEPT ![t].pc = "dump"]
                    /\ UNCHANGED status_text
               ELSE /\ store' = AbortCleanup(store, h)
                    /\ threads' = [threads EXCEPT ![t].pc = "exit"]
                    /\ status_text' = "Registration failed - save error"
          ELSE /\ store' = AbortCleanup(store, h)
               /\ threads' = [threads EXCEPT ![t].pc = "exit"]
               /\ status_text' = "Registration failed - only n faces"
    /\ UNCHANGED <<camera, now, arduino, is_unlocked, person_counter, name_map,
                   last_lock_state, registration_in_progress, main_locals,
                   last_cmd, cycle_history>>

\* lines 468-473 and 480-483: pickle.dump completes and the handle is
\* registered, or it raises and the directory is removed
RegDump(t) ==
    /\ threads[t].pc = "dump"
    /\ LET h == threads[t].handle
       IN \E ok \in BOOLEAN :
            IF ok /\ store[h].dir
            THEN /\ store' = [store EXCEPT ![h].pkl = "written",
                                           ![h].embs = threads[t].embeddings]
                 /\ name_map' = name_map \cup {<<person_counter, h>>}
                 /\ person_counter' = person_counter + 1
                 /\ status_text' = "Successfully registered"
                 /\ threads' = [threads EXCEPT ![t].pc = "unlock",
                                                ![t].ret = "user_id"]
            ELSE /\ store' = AbortCleanup(store, h)
                 /\ status_text' = "Registration failed - save error"
                 /\ threads' = [threads EXCEPT ![t].pc = "exit"]
                 /\ UNCHANGED <<name_map, person_counter>>
    /\ UNCHANGED <<camera, now, arduino, is_unlocked, last_lock_state,
                   registration_in_progress, main_locals, last_cmd,
                   cycle_history>>

\* lines 489-492: an exception during capture
RegExcept(t) ==
    /\ threads[t].pc = "except"
    /\ store' = AbortCleanup(store, threads[t].handle)
    /\ status_text' = "Registration failed - error occurred"
    /\ threads' = [threads EXCEPT ![t].pc = "exit", ![t].cause = "error"]
    /\ UNCHANGED <<camera, now, arduino, is_unlocked, person_counter, name_map,
                   last_lock_state, registration_in_progress, main_locals,
                   last_cmd, cycle_history>>

\* line 475: send_serial_command("unlock")
RegUnlock(t) ==
    /\ threads[t].pc = "unlock"
    /\ \E o \in LinkOutcomes(arduino) :
         last_cmd' = Sent("unlock", o)
    /\ threads' = [threads EXCEPT ![t].pc = "exit"]
    /\ UNCHANGED <<camera, now, arduino, globals, store, main_locals, cycle_history>>

\* lines 477-478 and 494-497: registration_in_progress = False, return
RegExit(t) ==
    /\ threads[t].pc = "exit"
    /\ registration_in_progress' = FALSE
    /\ threads' = [threads EXCEPT ![t] = IdleThread]
    /\ UNCHANGED <<camera, now, arduino, status_text, is_unlocked, person_counter,
                   name_map, last_lock_state, store, main_locals, last_cmd,
                   cycle_history>>

\* ------------------------------------------------------------- main loop
InLoop == main_pc \in {"read", "check", "verify", "send", "waitkey"}

\* mutant: a failed read leaves the loop
AfterRead_Break(ret) == IF ret THEN "check" ELSE "finally"

\* lines 646-647: if not ret: continue
AfterRead(ret) == IF ret THEN "check" ELSE "read"

\* lines 645-647: cap.read(); a failed read starts the iteration again
MainRead(frames) ==
    /\ main_pc = "read"
    /\ \E ret \in BOOLEAN, f \in frames :
         /\ frame' = IF ret THEN f ELSE frame
         /\ main_pc' = AfterRead(ret)
    /\ UNCHANGED <<camera, now, arduino, globals, store, last_update_time, face_box,
                   confidence, threads, last_cmd, cycle_history>>

\* lines 650-651: is a verification cycle due and no registration running?
\* last_update_time = current_time (line 660) is taken here: nothing reads
\* it in between.
MainCheck ==
    /\ main_pc = "check"
    /\ IF UpdateDue(now, last_update_time) /\ ~registration_in_progress
       THEN main_pc' = "verify" /\ last_update_time' = now
       ELSE main_pc' = "waitkey" /\ UNCHANGED last_update_time
    /\ UNCHANGED <<camera, now, arduino, globals, store, frame, face_box, confidence,
                   threads, last_cmd, cycle_history>>

\* lines 652-655: verify_face returns; compare with the last-known state
MainVerify ==
    /\ main_pc = "verify"
    /\ LET r == verify_face(frame, store)
       IN /\ is_unlocked' = r.ok
          /\ face_box' = r.box
          /\ confidence' = r.confidence
          /\ status_text' = r.status
          /\ decision' = PyBool(r.ok)
          /\ main_pc' = IF last_lock_state # PyBool(r.ok)
                        THEN "send" ELSE "waitkey"
    /\ prev_decision' = decision
    /\ cycle_cmds' = <<>>
    /\ UNCHANGED <<camera, now, arduino, person_counter, name_map, last_lock_state,
                   registration_in_progress, store, frame, last_update_time,
                   threads, last_cmd>>

\* line 656
LockCommand(unlocked) == IF unlocked THEN "lock_off" ELSE "lock_on"

\* mutant: the state advances only on an acknowledgement
NextLockState_OnAck(old, unlocked, acked) ==
    IF acked THEN PyBool(unlocked) ELSE old

\* line 658: last_lock_state = is_unlocked, whatever the send returned
NextLockState(old, unlocked, acked) == PyBool(unlocked)

\* lines 656-658: send the command, record the state
MainSend ==
    /\ main_pc = "send"
    /\ \E o \in LinkOutcomes(arduino) :
         /\ last_cmd' = Sent(LockCommand(is_unlocked), o)
         /\ last_lock_state' =
                NextLockState(last_lock_state, is_unlocked, SendReturns(o))
    /\ cycle_cmds' = Append(cycle_cmds, LockCommand(is_unlocked))
    /\ main_pc' = "waitkey"
    /\ UNCHANGED <<camera, now, arduino, status_text, is_unlocked, person_counter,
                   name_map, registration_in_progress, store, frame,
                   last_update_time, face_box, confidence, threads, decision,
                   prev_decision>>

\* lines 664-670: draw, show, poll the keyboard: ESC leaves the loop.  The
\* frame is dead after draw_layout.
MainKey ==
    /\ main_pc = "waitkey"
    /\ \E esc \in BOOLEAN : main_pc' = IF esc THEN "finally" ELSE "read"
    /\ frame' = NoFrame
    /\ UNCHANGED <<camera, now, arduino, globals, store, last_update_time, face_box,
                   confidence, threads, last_cmd, cycle_history>>

\* lines 672-675: KeyboardInterrupt or an unexpected error inside the loop
\* enters its except clause
MainInterrupt ==
    /\ InLoop
    /\ main_pc' = "except"
    /\ frame' = NoFrame
    /\ UNCHANGED <<camera, now, arduino, globals, store, last_update_time, face_box,
                   confidence, threads, last_cmd, cycle_history>>

\* arduino.close(): the object stays, the port is closed
Closed(link) == IF link = None THEN None ELSE "closed"

\* lines 673, 675: the except clause prints and falls into finally
MainExcept ==
    /\ main_pc = "except"
    /\ main_pc' = "finally"
    /\ UNCHANGED <<camera, now, arduino, globals, store, frame,
                   last_update_time, face_box, confidence, threads, last_cmd,
                   cycle_history>>

\* lines 676-678: send_serial_command("lock_on"), which returns before the
\* link is closed
MainFinally ==
    /\ main_pc = "finally"
    /\ \E o \in LinkOutcomes(arduino) : last_cmd' = Sent("lock_on", o)
    /\ main_pc' = "closing"
    /\ UNCHANGED <<camera, now, arduino, globals, store, frame,
                   last_update_time, face_box, confidence, threads,
                   cycle_history>>

\* lines 679-683 (and 626-630 after the quit button): close the link,
\* release the camera
MainClose ==
    /\ main_pc = "closing"
    /\ arduino' = Closed(arduino)
    /\ main_pc' = "exiting"
    /\ UNCHANGED <<camera, now, globals, store, frame, last_update_time,
                   face_box, confidence, threads, last_cmd, cycle_history>>

\* -------------------------------------------------------------- on_mouse
\* The callback runs inside the main loop's cv2.waitKey; line 599 lets a
\* click through only while registration_in_progress is false.
ClickAccepted == main_pc = "waitkey" /\ ~registration_in_progress

\* lines 602-604
OnMouseSavedFaces ==
    /\ ClickAccepted
    /\ status_text' = "Total registered faces: " \o ToString(get_face_count(store))
    /\ UNCHANGED <<camera, now, arduino, is_unlocked, person_counter, name_map,
                   last_lock_state, registration_in_progress, store,
                   main_locals, threads, last_cmd, cycle_history>>

\* lines 606-607: start a register_face thread (one of ts)
OnMouseRegister(ts) ==
    /\ ClickAccepted
    /\ person_counter \in Handles
    /\ \E t \in ts :
         /\ threads[t].pc = "idle"
         /\ \A u \in ts : u < t => threads[u].pc # "idle"
         /\ threads' = [threads EXCEPT ![t].pc = "spawned"]
    /\ UNCHANGED <<camera, now, arduino, globals, store, main_locals, last_cmd,
                   cycle_history>>

\* mutant: the root directory is not created again
ResetStore_NoMakedirs(st) == NoRoot

\* lines 611-612: rmtree(SAVED_NAMES_PATH, ignore_errors=True), then
\* makedirs(SAVED_NAMES_PATH, exist_ok=True)
ResetStore(st) == EmptyStore

\* lines 609-618
OnMouseReset ==
    /\ ClickAccepted
    /\ store' = ResetStore(store)
    /\ person_counter' = 1
    /\ name_map' = {}
    /\ is_unlocked' = FALSE
    /\ status_text' = "System reset completed"
    /\ \E o \in LinkOutcomes(arduino) : last_cmd' = Sent("reset", o)
    /\ UNCHANGED <<camera, now, arduino, last_lock_state, registration_in_progress,
                   main_locals, threads, cycle_history>>

\* lines 623-625: send_serial_command("lock"); the link is closed and the
\* process left (lines 626-631) after it has returned
OnMouseQuit ==
    /\ ClickAccepted
    /\ \E o \in LinkOutcomes(arduino) : last_cmd' = Sent("lock", o)
    /\ main_pc' = "closing"
    /\ frame' = NoFrame
    /\ UNCHANGED <<camera, now, arduino, globals, store, last_update_time,
                   face_box, confidence, threads, cycle_history>>

\* ------------------------------------------------------- process lifetime
\* The interpreter exits: the daemon threads (line 607) die where they are.
ProcessExit ==
    /\ main_pc = "exiting"
    /\ main_pc' = "exited"
    /\ threads' = [t \in Threads |-> IdleThread]
    /\ UNCHANGED <<camera, now, arduino, globals, store, frame, last_update_time,
                   face_box, confidence, last_cmd, cycle_history>>

\* lines 69-78, 586, 637-639: the values a process starts with.  init_serial
\* leaves a link object or None.
Boot(link) ==
    /\ arduino = link
    /\ status_text = "System Ready"
    /\ is_unlocked = FALSE
    /\ person_counter = 1
    /\ name_map = {}
    /\ last_lock_state = None
    /\ registration_in_progress = FALSE
    /\ main_pc = "read"
    /\ frame = NoFrame
    /\ last_update_time = 0
    /\ face_box = None
    /\ confidence = NoConf
    /\ threads = [t \in Threads |-> IdleThread]
    /\ last_cmd = NoCmd
    /\ cycle_cmds = <<>>
    /\ decision = None
    /\ prev_decision = None
    /\ camera = ESP32Camera

\* The program is started again: the globals are initialised anew, the
\* directory tree is what the last process left.
Restart ==
    /\ main_pc = "exited"
    /\ \E link \in {"open", None} : arduino' = link
    /\ status_text' = "System Ready"
    /\ is_unlocked' = FALSE
    /\ person_counter' = 1
    /\ name_map' = {}
    /\ last_lock_state' = None
    /\ registration_in_progress' = FALSE
    /\ main_pc' = "read"
    /\ last_update_time' = 0
    /\ face_box' = None
    /\ confidence' = NoConf
    /\ last_cmd' = NoCmd
    /\ cycle_cmds' = <<>>
    /\ decision' = None
    /\ prev_decision' = None
    /\ UNCHANGED <<camera, now, store, frame, threads>>

\* Time passes.
Tick(horizon) ==
    /\ now < BootTime + horizon
    /\ now' = now + 1
    /\ UNCHANGED <<camera, arduino, globals, store, main_locals, threads,
                   last_cmd,
                   cycle_history>>

\* ----------------------------------------------------------- ESP32Camera
others == <<now, arduino, globals, store, main_locals, threads, last_cmd,
            cycle_history>>

\* lines 157-179: connect() opens the stream and reads a test frame; on
\* success it starts the reader thread, otherwise it releases the capture
connect ==
    /\ camera.cap = None
    /\ camera.rel = "idle"
    /\ \E ok \in BOOLEAN :
         camera' = IF ok
                   THEN [camera EXCEPT !.cap = "open", !.connected = TRUE,
                                       !.running = TRUE, !.worker = "cond"]
                   ELSE [camera EXCEPT !.cap = "released",
                                       !.connected = FALSE]
    /\ UNCHANGED others

\* line 183: while self.running and self.cap and self.cap.isOpened()
StreamCondition(c) == c.running /\ c.cap # None /\ c.cap = "open"

StreamReaderCond ==
    /\ camera.worker = "cond"
    /\ camera' = [camera EXCEPT
                    !.worker = IF StreamCondition(camera)
                               THEN "read" ELSE "done"]
    /\ UNCHANGED others

\* mutant: a raising read is not caught
AfterStreamRead_Uncaught(outcome) ==
    IF outcome = "frame" THEN "cond"
    ELSE IF outcome = "raise" THEN "done" ELSE "sleep"

\* lines 184-191: a frame goes to the slot; a failed read and a raising
\* read both sleep 0.1 s
AfterStreamRead(outcome) == IF outcome = "frame" THEN "cond" ELSE "sleep"

\* line 185: self.cap.read() returns a frame, returns ret = False or
\* raises; release() may have released the capture meanwhile
StreamReaderRead ==
    /\ camera.worker = "read"
    /\ \E outcome \in {"frame", "fail", "raise"} :
         camera' = [camera EXCEPT
                      !.worker = AfterStreamRead(outcome),
                      !.frame = IF outcome = "frame" THEN "frame" ELSE @,
                      !.fails = IF outcome = "frame" THEN 0
                                ELSE IF @ < MaxFailures THEN @ + 1 ELSE @]
    /\ UNCHANGED others

\* lines 189, 191: time.sleep(0.1) returns
StreamReaderSleep ==
    /\ camera.worker = "sleep"
    /\ camera' = [camera EXCEPT !.worker = "cond"]
    /\ UNCHANGED others

\* lines 193-197: read() returns (True, copy of the slot) or (False, None)
read(c) == IF c.connected /\ c.frame # None THEN "ready" ELSE "not_ready"

CameraRead ==
    /\ camera' = [camera EXCEPT !.last_read = read(camera),
                                !.read_seq = 1 - @]
    /\ UNCHANGED others

\* lines 201-203: release() clears running and joins the thread.  It is
\* called on the object try_camera_sources returned, one whose connect()
\* started the thread.
ReleaseStart ==
    /\ camera.rel = "idle"
    /\ camera.worker # "none"
    /\ camera' = [camera EXCEPT !.running = FALSE, !.waited = 0,
                                !.rel = "join"]
    /\ UNCHANGED others

\* line 203: join(timeout=1) returns when the thread has ended or the
\* second is over
JoinOver(worker, waited) ==
    worker = "done" \/ waited >= JoinTimeout * TicksPerSecond

\* the join waits one more tick
ReleaseJoinWait ==
    /\ camera.rel = "join"
    /\ ~JoinOver(camera.worker, camera.waited)
    /\ camera' = [camera EXCEPT !.waited = @ + 1]
    /\ UNCHANGED others

ReleaseJoin ==
    /\ camera.rel = "join"
    /\ JoinOver(camera.worker, camera.waited)
    /\ camera' = [camera EXCEPT !.rel = "cap_release"]
    /\ UNCHANGED others

\* lines 204-205: self.cap.release()
ReleaseCap ==
    /\ camera.rel = "cap_release"
    /\ camera' = [camera EXCEPT !.cap = "released", !.rel = "disconnect"]
    /\ UNCHANGED others

\* line 206: self.connected = False, release() returns
ReleaseDone ==
    /\ camera.rel = "disconnect"
    /\ camera' = [camera EXCEPT !.connected = FALSE, !.rel = "returned"]
    /\ UNCHANGED others

\* A process that found the ESP32-CAM: the object, its reader thread, the
\* threads that call read() and the one call of release() at shutdown.
InitCamera ==
    /\ now = BootTime
    /\ store = EmptyStore
    /\ Boot(None)

NextCamera ==
    \/ connect
    \/ StreamReaderCond
    \/ StreamReaderRead
    \/ StreamReaderSleep
    \/ CameraRead
    \/ ReleaseStart
    \/ ReleaseJoinWait
    \/ ReleaseJoin
    \/ ReleaseCap
    \/ ReleaseDone

SpecCamera == InitCamera /\ [][NextCamera]_vars

\* The scheduler keeps running the reader thread and the thread inside
\* release(), and the join's timer runs; a self.cap.read() in progress need
\* not return.
SpecCameraFair ==
    /\ SpecCamera
    /\ WF_vars(StreamReaderCond)
    /\ WF_vars(StreamReaderSleep)
    /\ WF_vars(ReleaseJoinWait)
    /\ WF_vars(ReleaseJoin)
    /\ WF_vars(ReleaseCap)
    /\ WF_vars(ReleaseDone)

\* ------------------------------------------------------ the whole system
\* The frames of the system models: the detector raises, no single face, a
\* face whose embedding cannot be extracted, a face.
SysFrames == {Frame(-1, FALSE, NoEmb), Frame(0, FALSE, NoEmb),
              Frame(1, TRUE, NoEmb), Frame(1, TRUE, E3)}

Init ==
    /\ now = BootTime
    /\ store = EmptyStore
    /\ \E link \in {"open", None} : Boot(link)

\* The control loop, its callback and the process lifetime.
MainSteps(ts) ==
    \/ MainRead(SysFrames)
    \/ MainCheck
    \/ MainVerify
    \/ MainSend
    \/ MainKey
    \/ MainInterrupt
    \/ MainExcept
    \/ MainFinally
    \/ MainClose
    \/ OnMouseSavedFaces
    \/ OnMouseRegister(ts)
    \/ OnMouseReset
    \/ OnMouseQuit
    \/ ProcessExit
    \/ Restart

\* The steps of a register_face thread that take no time to come about.
RegisterSteps(t, frames) ==
    \/ RegStart(t)
    \/ RegLoop(t)
    \/ RegRead(t, frames)
    \/ RegCapture(t)
    \/ RegWaitKey(t)
    \/ RegFinish(t)
    \/ RegExcept(t)
    \/ RegExit(t)

\* ... and those that follow three spaced captures.
CommitSteps(t) ==
    \/ RegDump(t)
    \/ RegUnlock(t)

\* The program over SysHorizon ticks, the user leaving a started
\* enrollment thread the time to set registration_in_progress before the
\* next click on "Register Face": one register_face thread at a time.
OneThread == {1}

Next ==
    \/ MainSteps(OneThread)
    \/ Tick(SysHorizon)
    \/ \E t \in OneThread : RegisterSteps(t, SysFrames) \/ CommitSteps(t)

Spec == Init /\ [][Next]_vars

\* The program within one clock tick, with every interleaving of clicks,
\* thread starts and the control loop.
NextRace ==
    \/ MainSteps(Threads)
    \/ \E t \in Threads : RegisterSteps(t, SysFrames)

SpecRace == Init /\ [][NextRace]_vars

\* --------------------------------------------------- one enrollment session
\* A namespace a committed session left: three captures of one face.
Enrolled(e) == [dir |-> TRUE, images |-> TRUE, pkl |-> "written",
                embs |-> <<e, e, e>>]

EnrollFrames == FramesOver({E3})

\* "Register Face" has just been clicked in a freshly started process, on an
\* empty store or on the store an earlier process left.
InitEnroll ==
    /\ now = BootTime
    /\ store \in {EmptyStore, [EmptyStore EXCEPT ![1] = Enrolled(E2)]}
    /\ \E link \in {"open", None} : arduino = link
    /\ status_text = "System Ready"
    /\ is_unlocked = FALSE
    /\ person_counter = 1
    /\ name_map = {}
    /\ last_lock_state = None
    /\ registration_in_progress = FALSE
    /\ main_pc = "waitkey"
    /\ frame = NoFrame
    /\ last_update_time = 0
    /\ face_box = None
    /\ confidence = NoConf
    /\ threads = [t \in Threads |->
                    IF t = 1 THEN [IdleThread EXCEPT !.pc = "spawned"]
                    ELSE IdleThread]
    /\ last_cmd = NoCmd
    /\ cycle_cmds = <<>>
    /\ decision = None
    /\ prev_decision = None
    /\ camera = ESP32Camera

\* The clock runs from the start of the session until EnrollSlack ticks past
\* the duration cap.
EnrollTick ==
    /\ InRegisterFace(1)
    /\ Tick(REGISTRATION_DURATION * TicksPerSecond + EnrollSlack)

NextEnroll ==
    \/ EnrollTick
    \/ \E t \in OneThread : RegisterSteps(t, EnrollFrames) \/ CommitSteps(t)

SpecEnroll == InitEnroll /\ [][NextEnroll]_vars

\* The same session with a scheduler that keeps running the thread and a
\* clock that keeps advancing.
SpecEnrollFair ==
    /\ SpecEnroll
    /\ WF_vars(EnrollTick)
    /\ \A t \in OneThread :
          WF_vars(RegisterSteps(t, EnrollFrames) \/ CommitSteps(t))

\* ------------------------------------------- one session, two embeddings
\* The subject turns the head once during the session: the crops give E2
\* until the first capture of E3 and E3 from then on.
TurnFrames(embeddings) ==
    IF embeddings # <<>> /\ embeddings[Len(embeddings)] = E3
    THEN FramesOver({E3})
    ELSE FramesOver({E2, E3})

NextRoundTrip ==
    \/ EnrollTick
    \/ \E t \in OneThread :
          \/ RegStart(t)
          \/ RegLoop(t)
          \/ RegRead(t, TurnFrames(threads[t].embeddings))
          \/ RegCapture(t)
          \/ RegWaitKey(t)
          \/ RegFinish(t)
          \/ RegExcept(t)
          \/ RegExit(t)
          \/ CommitSteps(t)

SpecRoundTrip == InitEnroll /\ [][NextRoundTrip]_vars

\* -------------------------------------------------------------- one match
\* The pickled lists: MIN_REGISTRATION_FACES to VerifyMaxLen embeddings.
StoredLists ==
    UNION {[1..n -> StoredEmbeddings] :
              n \in MIN_REGISTRATION_FACES..VerifyMaxLen}

StoredEntries ==
    {NoDir,
     [NoDir EXCEPT !.dir = TRUE, !.images = TRUE],
     [NoDir EXCEPT !.dir = TRUE, !.images = TRUE, !.pkl = "partial"]}
    \cup {[dir |-> TRUE, images |-> TRUE, pkl |-> "written", embs |-> l] :
             l \in StoredLists}

\* verify_face is about to run on some frame over some store.
InitVerify ==
    /\ now = BootTime
    /\ store \in [Handles -> StoredEntries]
    /\ frame \in FramesOver(Embeddings) \cup TwoFaceFramesOver(Embeddings)
    /\ arduino = None
    /\ status_text = "System Ready"
    /\ is_unlocked = FALSE
    /\ person_counter = 1
    /\ name_map = {}
    /\ last_lock_state = None
    /\ registration_in_progress = FALSE
    /\ main_pc = "verify"
    /\ last_update_time = BootTime
    /\ face_box = None
    /\ confidence = NoConf
    /\ threads = [t \in Threads |-> IdleThread]
    /\ last_cmd = NoCmd
    /\ cycle_cmds = <<>>
    /\ decision = None
    /\ prev_decision = None
    /\ camera = ESP32Camera

NextVerify == MainVerify

SpecVerify == InitVerify /\ [][NextVerify]_vars

\* ------------------------------------------------------------- the reset
\* The main window waits for a click, over any tree earlier sessions or the
\* user left under SAVED_NAMES_PATH, the root directory itself included.
InitReset ==
    /\ now = BootTime
    /\ store \in [Handles -> StoredEntries] \cup {NoRoot}
    /\ \E link \in {"open", None} : arduino = link
    /\ status_text = "System Ready"
    /\ is_unlocked \in BOOLEAN
    /\ person_counter \in 1..(MaxHandle + 1)
    /\ name_map = {<<k, k>> : k \in 1..(person_counter - 1)}
    /\ last_lock_state = PyBool(is_unlocked)
    /\ registration_in_progress = FALSE
    /\ main_pc = "waitkey"
    /\ frame = NoFrame
    /\ last_update_time = BootTime
    /\ face_box = None
    /\ confidence = NoConf
    /\ threads = [t \in Threads |-> IdleThread]
    /\ last_cmd = NoCmd
    /\ cycle_cmds = <<>>
    /\ decision = PyBool(is_unlocked)
    /\ prev_decision = None
    /\ camera = ESP32Camera

NextReset ==
    \/ OnMouseReset
    \/ OnMouseSavedFaces

SpecReset == InitReset /\ [][NextReset]_vars

\* ================================================================ claims
Running(t) == InRegisterFace(t)

\* C1: when the control loop has sent the command of a changed decision
\* and send_serial_command did not report an acknowledgement,
\* last_lock_state keeps its previous value.
C1_StateAdvancesOnlyOnAck ==
    [][(main_pc = "send" /\ main_pc' = "waitkey" /\ ~last_cmd'.acked)
         => last_lock_state' = last_lock_state]_vars

C3_OneSessionAtATime ==
    \A t, u \in Threads : (Running(t) /\ Running(u)) => t = u

\* C4: verify_face is not running in the control loop while a register_face
\* thread is between its start and its exit.
C4_VerifyExcludesEnroll ==
    ~(main_pc = "verify" /\ \E t \in Threads : Running(t))

\* C5: a session commits only with at least MIN_REGISTRATION_FACES samples,
\* so every embeddings.pkl in the store holds at least that many.
C5_CommitNeedsMinimum ==
    /\ \A h \in Handles :
         store[h].pkl = "written"
            => Len(store[h].embs) >= MIN_REGISTRATION_FACES
    /\ \A t \in Threads :
         (threads[t].pc \in {"dump", "unlock"} \/ threads[t].ret = "user_id")
            => Len(threads[t].embeddings) >= MIN_REGISTRATION_FACES
    /\ \A e \in name_map :
         /\ store[e[2]].pkl = "written"
         /\ Len(store[e[2]].embs) >= MIN_REGISTRATION_FACES
    /\ person_counter # 1 => name_map # {}

C5_Witness ==
    \E t \in Threads :
       /\ threads[t].pc = "unlock"
       /\ threads[t].cause = "cancel"
       /\ store[threads[t].handle].pkl = "written"
       /\ store[threads[t].handle].embs = threads[t].embeddings
       /\ person_counter = threads[t].handle + 1

\* C6: a session that returns None (aborted) has removed its namespace and
\* has not advanced the handle counter, and once no session runs the store
\* holds no namespace without its completely written embeddings.pkl.
C6_AbortLeavesNothing ==
    /\ \A t \in Threads :
         (threads[t].pc = "exit" /\ threads[t].ret = None)
            => /\ store[threads[t].handle] = NoDir
               /\ person_counter = threads[t].handle
               /\ name_map = {}
    /\ (\A t \in Threads : ~Running(t))
         => \A h \in Handles : store[h].dir => store[h].pkl = "written"

C6_Witness ==
    \E t \in Threads :
       /\ threads[t].pc = "exit"
       /\ threads[t].ret = None
       /\ threads[t].cause = "cancel"
       /\ Len(threads[t].embeddings) \in 1..(MIN_REGISTRATION_FACES - 1)
       /\ store[threads[t].handle] = NoDir

\* C7: a committed identity's embeddings.pkl stays exactly as committed in
\* every step that is not the full store reset.
C7_IdentityImmutable ==
    [][(\A h \in Handles :
          store[h].pkl = "written"
             => store'[h].pkl = "written" /\ store'[h].embs = store[h].embs)
       \/ OnMouseReset]_vars

\* C8: a candidate under capture passed the spacing test more than 0.5 s
\* after the previous accepted capture, and the capture times of two
\* successive accepted samples are more than 0.5 s apart.
C8_CapturesSpaced ==
    /\ [](\A t \in Threads :
            threads[t].pc = "extract"
               => 2 * (now - threads[t].last_capture) > TicksPerSecond)
    /\ [][\A t \in Threads :
            (Len(threads[t].embeddings) >= 1
               /\ Len(threads'[t].embeddings) > Len(threads[t].embeddings))
               => 2 * (threads'[t].last_capture - threads[t].last_capture)
                     > TicksPerSecond]_vars

C8_Witness ==
    \E t \in Threads :
       /\ threads[t].pc = "waitkey"
       /\ Len(threads[t].embeddings) >= 2
       /\ threads[t].last_capture = now

\* C9: on a frame with zero or two faces verify_face returns REJECT with no
\* confidence and no box, whatever the store holds.
C9_AmbiguousRejected ==
    (main_pc # "verify" /\ frame.faces \in {0, 2})
       => (~is_unlocked /\ confidence = NoConf /\ face_box = None)

C9_Witness ==
    /\ main_pc # "verify"
    /\ frame = Frame(2, TRUE, E2)
    /\ \E h \in Handles : store[h].pkl = "written" /\ store[h].embs[1] = E2
    /\ ~is_unlocked
    /\ confidence = NoConf

\* C10: for one valid face with an embedding, ACCEPT exactly when some
\* stored embedding of some identity scores strictly above
\* CONFIDENCE_THRESHOLD.
C10_AcceptIffAboveThreshold ==
    (main_pc # "verify" /\ frame.faces = 1 /\ frame.valid
        /\ frame.emb # NoEmb)
       => (is_unlocked <=>
             \E h \in Handles :
                /\ store[h].dir
                /\ store[h].pkl = "written"
                /\ \E i \in 1..Len(store[h].embs) :
                      cosine_similarity(frame.emb, store[h].embs[i])
                         > CONFIDENCE_THRESHOLD)

C10_Witness ==
    /\ main_pc # "verify"
    /\ frame = Frame(1, TRUE, E1)
    /\ confidence = Conf(CONFIDENCE_THRESHOLD)
    /\ ~is_unlocked

\* C11: over a store without any enrolled identity, verify_face on a frame
\* with exactly one valid face returns REJECT with confidence 0.
C11_EmptyStoreRejects ==
    (main_pc # "verify" /\ frame.faces = 1 /\ frame.valid
        /\ \A h \in Handles : store[h].pkl # "written")
       => (~is_unlocked /\ confidence = Conf(0) /\ decision = "False")

C11_Witness ==
    /\ main_pc # "verify"
    /\ frame = Frame(1, TRUE, E5)
    /\ store = EmptyStore
    /\ ~is_unlocked
    /\ confidence = Conf(0)
    /\ face_box = Box

\* C12: after a reset the store is the empty root, get_face_count() is 0,
\* the handle counter is 1 and the name map is empty, whatever the tree was
\* before (the root missing included), and a reset that follows a reset
\* changes none of them.
C12_ResetIdempotent ==
    /\ [](last_cmd.cmd = "reset"
            => /\ store = EmptyStore
               /\ get_face_count(store) = 0
               /\ person_counter = 1
               /\ name_map = {}
               /\ ~is_unlocked)
    /\ [][(last_cmd.cmd = "reset" /\ status_text = "System reset completed"
            /\ status_text' = "System reset completed")
           => /\ store' = store
              /\ get_face_count(store') = get_face_count(store)
              /\ person_counter' = person_counter
              /\ name_map' = name_map
              /\ is_unlocked' = is_unlocked]_vars

C12_Witness ==
    /\ last_cmd.cmd = "reset"
    /\ last_cmd.outcome = "timeout"
    /\ status_text = "System reset completed"
    /\ store = EmptyStore
    /\ person_counter = 1

\* C13: the list a committed session leaves in embeddings.pkl, which is the
\* list verify_face loads for that identity, is the list of the embeddings
\* the session captured, in the order of capture: the session's list grows
\* only by appending the captured embedding at its end and is dumped whole.
C13_RoundTrip ==
    /\ [](\A t \in Threads :
            threads[t].pc = "unlock"
               => /\ store[threads[t].handle].dir
                  /\ store[threads[t].handle].pkl = "written"
                  /\ store[threads[t].handle].embs = threads[t].embeddings)
    /\ [][\A t \in Threads :
            threads'[t].embeddings # threads[t].embeddings
               => \/ /\ threads[t].pc = "extract"
                     /\ threads'[t].embeddings =
                           Append(threads[t].embeddings, threads[t].cand.emb)
                  \/ threads'[t].pc = "idle"]_vars

C13_Witness ==
    \E t \in Threads :
       /\ threads[t].pc = "unlock"
       /\ Len(threads[t].embeddings) = 9
       /\ threads[t].embeddings[1] = E2
       /\ threads[t].embeddings[9] = E3
       /\ store[threads[t].handle].embs = threads[t].embeddings

\* C14: is_unlocked changes only in the step of the control loop in which
\* verify_face returns (the start of a new process aside): the reset, the
\* enrollment steps, the listing of saved faces and a skipped cycle leave
\* it as it is.
C14_LockStateOnlyByController ==
    [][is_unlocked' # is_unlocked
         => \/ main_pc = "verify" /\ main_pc' \in {"send", "waitkey"}
            \/ main_pc = "exited"]_vars

\* C15: a completed verification cycle whose decision is the decision of
\* the cycle before it sends the lock command again when the last lock
\* command sent for that decision was not acknowledged.
C15_ResendUntilAck ==
    (/\ main_pc = "waitkey"
     /\ decision # None
     /\ prev_decision = decision
     /\ last_cmd.cmd = LockCommand(decision = "True")
     /\ ~last_cmd.acked)
       => cycle_cmds # <<>>

\* C16: the step in which verify_face returns from a frame without exactly
\* one face, or with one face whose crop is not valid, leaves is_unlocked
\* and last_lock_state as they are and sends no command.
C16_AmbiguityChangesNothing ==
    [][(/\ main_pc = "verify"
        /\ main_pc' # "verify"
        /\ \/ frame.faces \notin {-1, 1}
           \/ frame.faces = 1 /\ ~frame.valid)
         => /\ is_unlocked' = is_unlocked
            /\ last_lock_state' = last_lock_state
            /\ main_pc' # "send"]_vars

\* C17: on a frame with exactly one face verify_face returns REJECT with
\* the face box, and no confidence or confidence 0, when the crop is not
\* valid, and REJECT with the face box and confidence 0 when the crop is
\* valid and no embedding can be extracted.
C17_InvalidCropKeepsBox ==
    (main_pc # "verify" /\ frame.faces = 1)
       => /\ ~frame.valid
               => /\ ~is_unlocked
                  /\ face_box = Box
                  /\ confidence \in {NoConf, Conf(0)}
          /\ (frame.valid /\ frame.emb = NoEmb)
               => /\ ~is_unlocked
                  /\ face_box = Box
                  /\ confidence = Conf(0)

\* C18: a running register_face returns, with registration_in_progress
\* false once it has; its list never holds more than
\* MAX_REGISTRATION_IMAGES samples; its while condition ends the capture
\* exactly when the duration has elapsed or the list is full, and ESC ends
\* it at the keyboard poll.
C18_SessionEnds ==
    /\ \A t \in OneThread :
          Running(t) ~> (~Running(t) /\ ~registration_in_progress)
    /\ []((\A t \in Threads : ~Running(t)) => ~registration_in_progress)
    /\ [](\A t \in Threads :
            Len(threads[t].embeddings) <= MAX_REGISTRATION_IMAGES)
    /\ [][\A t \in Threads :
            (threads[t].pc = "loop" /\ threads'[t].pc # "loop")
               => LET elapsed == now - threads[t].start_time
                      full    == Len(threads[t].embeddings)
                                    >= MAX_REGISTRATION_IMAGES
                      over    == elapsed
                                    >= REGISTRATION_DURATION * TicksPerSecond
                  IN threads'[t].pc =
                        IF over \/ full THEN "finish" ELSE "read"]_vars
    /\ [][\A t \in Threads :
            (threads[t].pc = "waitkey" /\ threads'[t].pc = "finish")
               => threads'[t].cause = "cancel"]_vars

C18_Witness ==
    \E t \in Threads :
       /\ threads[t].pc = "exit"
       /\ threads[t].cause = "time"
       /\ threads[t].embeddings = <<>>
       /\ threads[t].ret = None
       /\ now - threads[t].start_time
             >= REGISTRATION_DURATION * TicksPerSecond

\* C19: a session that has committed leaves the lock state UNLOCKED and
\* "unlock" as the last command handed to the link; a session that has
\* aborted has sent no command and leaves the lock state as it was.
C19_CommitUnlocks ==
    \A t \in Threads :
       threads[t].pc = "exit"
          => IF threads[t].ret = "user_id"
             THEN is_unlocked /\ last_cmd.cmd = "unlock"
             ELSE ~is_unlocked /\ last_cmd = NoCmd

\* C20: a call of send_serial_command writes the command at most once and
\* returns True exactly when a response line that is not empty arrived
\* within the second.
C20_AckIffNonEmptyLine ==
    last_cmd # NoCmd
       => /\ last_cmd.writes <= 1
          /\ last_cmd.acked <=> last_cmd.outcome = "line"

MainLoop ==
    \/ MainRead(SysFrames)
    \/ MainCheck
    \/ MainVerify
    \/ MainSend
    \/ MainKey

\* C22: the control loop is left only by ESC at the keyboard poll, by the
\* quit button or through the except clause of an interrupt: a failed frame
\* read, a verification that raises or rejects and a command that times out
\* or fails leave it running, and a running loop can always take a further
\* step.
C22_LoopSurvivesFailures ==
    /\ [][(InLoop /\ ~InLoop')
            => \/ main_pc = "waitkey" /\ main_pc' \in {"finally", "closing"}
               \/ main_pc' = "except"]_vars
    /\ [](InLoop => ENABLED MainLoop)

C22_Witness ==
    /\ main_pc = "waitkey"
    /\ frame.faces = -1
    /\ status_text = "Verification error occurred"
    /\ last_cmd.cmd = "lock_on"
    /\ last_cmd.outcome = "timeout"

\* C23: once the control loop has ended and its locking command has been
\* handed to the link, the last command written to the link is not an
\* unlocking one.
C23_LastCommandLocks ==
    main_pc \in {"closing", "exiting", "exited"}
       => ~(/\ last_cmd.cmd \in {"unlock", "lock_off"}
            /\ last_cmd.outcome \in {"line", "empty_line", "timeout"})

====
